---- MODULE Spec2Model ----
(***************************************************************************)
(* Model of s26827_2025-2.py: the NCBIRetriever class (search_taxid,       *)
(* fetch_records) and the pipeline in main().                              *)
(*                                                                         *)
(* Two specifications share the state:                                     *)
(*   Spec     one run of main(), split at its statements;                  *)
(*   SpecAPI  retrievers constructed and called in any order.              *)
(* The remote service, the file system and the user's typing are the       *)
(* environment: every response is chosen with \E from a bounded set.       *)
(***************************************************************************)
EXTENDS Integers, Sequences, FiniteSets, TLC

----------------------------------------------------------------------------
(* Bounds of the model *)

MaxSeqLen  == 2   \* longest sequence carried by a fetched record
MaxFetched == 2   \* most records the service returns in one batch
MaxLength  == 2   \* largest number typed for min_length / max_length
MaxCount   == 1   \* largest Count the search reports
MaxFetchedAPI == 1  \* most records a batch returns in SpecAPI

----------------------------------------------------------------------------
(* Python values *)

\* An optional value: None, or an attribute / local that is not set, is the
\* empty tuple; a present value x is <<x>>.
None == <<>>
Some(x) == <<x>>
IsSet(o) == o /= <<>>
Val(o) == o[1]

\* min(a, b) of Python
min(a, b) == IF a <= b THEN a ELSE b

\* int(text): the value of a decimal numeral; on a text that is no numeral
\* int raises ValueError (None here).
IntRange == 0..(MaxLength + MaxCount)
int(t) ==
    IF \E n \in IntRange : ToString(n) = t
    THEN Some(CHOOSE n \in IntRange : ToString(n) = t)
    ELSE None

\* What the user types for a length: a numeral, or a text that is none.
InputTexts == {ToString(n) : n \in 0..MaxLength} \cup {"x", ""}

----------------------------------------------------------------------------
(* The values the environment supplies *)

Credentials == {<<"a@x.org", "key-a">>, <<"b@y.org", "key-b">>}
MainCredentials == {<<"a@x.org", "key-a">>}   \* typed in the run of main()
TaxIds  == {"9606"}
WebEnvs == {"MCID_1", "MCID_2"}
QueryKeys == {"1"}
Retrievers == {"r1", "r2"}

\* A parsed SeqRecord: id, seq and description are what the program reads.
Accessions == {"AB1", "CD2"}
SeqOf(n) == [i \in 1..n |-> "N"]
Description(a) == IF a = "AB1" THEN "first clone" ELSE "second clone"
SeqRecords ==
    {[id |-> a, seq |-> SeqOf(n), description |-> Description(a)] :
        a \in Accessions, n \in 0..MaxSeqLen}

SeqsUpTo(S, n) == UNION {[1..k -> S] : k \in 0..n}

\* Response of Entrez.efetch(db="taxonomy") + Entrez.read: the call raises,
\* or the parsed list is empty, or it holds one entry.
TaxonomyResponses ==
    {[kind |-> "error", records |-> <<>>],
     [kind |-> "ok", records |-> <<>>],
     [kind |-> "ok", records |-> <<[ScientificName |-> "Homo sapiens"]>>]}

\* The history tokens of a search result: each of WebEnv and QueryKey is
\* present or missing; the code reads them one after the other (lines 44-45).
HistoryTokens ==
    ({None} \cup {Some(w) : w \in WebEnvs})
        \X ({None} \cup {Some(q) : q \in QueryKeys})

\* Response of Entrez.esearch + Entrez.read: the call raises, or a result
\* whose Count is a numeral, with or without history tokens.
SearchResponses ==
    {[kind |-> "error", Count |-> "0", WebEnv |-> None, QueryKey |-> None]}
    \cup
    {[kind |-> "ok", Count |-> ToString(c), WebEnv |-> h[1], QueryKey |-> h[2]] :
        c \in 0..MaxCount, h \in HistoryTokens}

\* Response of Entrez.efetch(db="nucleotide") + SeqIO.parse: the call
\* raises, the text does not parse, or at most retmax records come back.
FetchResponses(pool, retmax, most) ==
    {[kind |-> "error", records |-> <<>>],
     [kind |-> "parse_error", records |-> <<>>]}
    \cup
    {[kind |-> "ok", records |-> rs] : rs \in SeqsUpTo(pool, min(retmax, most))}

\* Outcome of writing one file: written, open() raised, or the write raised
\* after the file was created.
IOOutcomes == {"ok", "open_error", "write_error"}

----------------------------------------------------------------------------
(* State *)

VARIABLES
    Entrez,            \* module globals Entrez.email / api_key / tool
    retr,              \* retriever objects: attributes of each instance
    calls,             \* remote calls issued by the run of main(), in order
    resp,              \* how the service answered each of them
    stdout,            \* lines printed by the run of main()
    pc,                \* position of main()
    exc,               \* exception that ended main(), "none" otherwise
    taxid,             \* locals of main()
    min_length,
    max_length,
    count,
    sample_records,
    filtered_records,
    df,
    df_sorted,
    files,             \* files created by the run: name -> content
    last,              \* SpecAPI: the last call made and what it did
    session            \* per retriever: the tokens the service handed out
                       \* in its latest search that returned a count

vars == <<Entrez, retr, calls, resp, stdout, pc, exc, taxid, min_length, max_length,
          count, sample_records, filtered_records, df, df_sorted, files,
          last, session>>

mainLocals == <<taxid, min_length, max_length, count, sample_records,
                filtered_records, df, df_sorted>>

\* An instance before __init__ ran has no attributes.
NoObject ==
    [made |-> FALSE, email |-> None, api_key |-> None,
     webenv |-> None, query_key |-> None, count |-> None]

----------------------------------------------------------------------------
(* class NCBIRetriever *)

MaxBatch == 500      \* fetch_records: batch_size = min(max_records, 500)
SampleSize == 20     \* main: fetch_records(start=0, max_records=20)

\* The three remote calls, as issued: the arguments the code passes and the
\* credentials the Entrez module holds at the moment of the call.
TaxonomyCall(id) ==
    [fn |-> "efetch", db |-> "taxonomy", id |-> id, retmode |-> "xml",
     email |-> Entrez.email, api_key |-> Entrez.api_key]

SearchCall(term) ==
    [fn |-> "esearch", db |-> "nucleotide", term |-> term, usehistory |-> "y",
     email |-> Entrez.email, api_key |-> Entrez.api_key]

FetchCall(start, retmax, webenv, query_key) ==
    [fn |-> "efetch", db |-> "nucleotide", rettype |-> "gb", retmode |-> "text",
     retstart |-> start, retmax |-> retmax,
     webenv |-> webenv, query_key |-> query_key,
     email |-> Entrez.email, api_key |-> Entrez.api_key]

\* How the taxonomy lookup answered: it raised, it held no entry, or it held one.
TaxonomyAnswer(tr) ==
    IF tr.kind = "error" THEN "error"
    ELSE IF Len(tr.records) = 0 THEN "no_entry" ELSE "ok"

\* hasattr(self, name)
hasattr(self, name) == IsSet(self[name])

\* NCBIRetriever.__init__: the instance attributes and the module globals.
NCBIRetriever_init(email, api_key) ==
    [self |-> [NoObject EXCEPT !.made = TRUE,
                               !.email = Some(email),
                               !.api_key = Some(api_key)],
     Entrez |-> [email |-> Some(email), api_key |-> Some(api_key),
                 tool |-> "BioScriptEx10"]]

\* NCBIRetriever.search_taxid(taxid), given the responses tr of the taxonomy
\* lookup and sr of the search.  Yields the instance afterwards, the calls
\* issued, the lines printed and the value returned.  Every exception raised
\* inside the try block ends in the except clause: print, return None.
search_taxid(self, id, tr, sr) ==
    LET p0 == <<<<"Searching for records with taxID", id>>>>
        c1 == <<TaxonomyCall(id)>>
        failed(s, c, a, p) ==
            [self |-> s, calls |-> c, resp |-> a,
             stdout |-> p \o <<<<"Error searching TaxID", id>>>>,
             ret |-> None]
        a1 == <<[kind |-> TaxonomyAnswer(tr)]>>
        a2 == a1 \o <<sr>>
    IN  IF tr.kind = "error" \/ Len(tr.records) = 0
        THEN failed(self, c1, a1, p0)
        ELSE
        LET organism_name == tr.records[1].ScientificName
            p1 == p0 \o <<<<"Organism", organism_name, id>>>>
            search_term == <<"txid", id, "[Organism]">>
            c2 == c1 \o <<SearchCall(search_term)>>
        IN  IF sr.kind = "error" \/ ~IsSet(int(sr.Count))
            THEN failed(self, c2, a2, p1)
            ELSE
            LET cnt == Val(int(sr.Count))
            IN  IF cnt = 0
                THEN [self |-> self, calls |-> c2, resp |-> a2,
                      stdout |-> p1 \o <<<<"No records found for", organism_name>>>>,
                      ret |-> None]
                ELSE
                LET p2 == p1 \o <<<<"Found", ToString(cnt), "records">>>>
                IN  IF ~IsSet(sr.WebEnv)
                    THEN failed(self, c2, a2, p2)
                    ELSE IF ~IsSet(sr.QueryKey)
                    THEN failed([self EXCEPT !.webenv = sr.WebEnv], c2, a2, p2)
                    ELSE [self |-> [self EXCEPT !.webenv = sr.WebEnv,
                                                !.query_key = sr.QueryKey,
                                                !.count = Some(cnt)],
                          calls |-> c2, resp |-> a2, stdout |-> p2,
                          ret |-> Some(cnt)]

\* Variant: the presence check left out, so that reading a missing token
\* raises inside the try block and ends in its except clause.
fetch_records_unguarded(self, start, max_records, fr) ==
    IF ~IsSet(self.webenv) \/ ~IsSet(self.query_key)
    THEN [calls |-> <<>>, resp |-> <<>>,
          stdout |-> <<<<"Error fetching records">>>>, ret |-> <<>>]
    ELSE
    LET c == <<FetchCall(start, min(max_records, MaxBatch),
                         Val(self.webenv), Val(self.query_key))>>
    IN  IF fr.kind = "ok"
        THEN [calls |-> c, resp |-> <<[kind |-> fr.kind]>>, stdout |-> <<>>,
              ret |-> fr.records]
        ELSE [calls |-> c, resp |-> <<[kind |-> fr.kind]>>,
              stdout |-> <<<<"Error fetching records">>>>, ret |-> <<>>]

\* NCBIRetriever.fetch_records(start, max_records), given the response fr of
\* the remote fetch.  Without both tokens it prints and returns [] at once;
\* an exception of the call or of the parse ends in print, return [].
fetch_records(self, start, max_records, fr) ==
    IF ~hasattr(self, "webenv") \/ ~hasattr(self, "query_key")
    THEN [calls |-> <<>>, resp |-> <<>>,
          stdout |-> <<<<"No search results to fetch. Run search_taxid() first.">>>>,
          ret |-> <<>>]
    ELSE
    LET batch_size == min(max_records, MaxBatch)
        c == <<FetchCall(start, batch_size, Val(self.webenv), Val(self.query_key))>>
    IN  IF fr.kind = "ok"
        THEN [calls |-> c, resp |-> <<[kind |-> fr.kind]>>, stdout |-> <<>>,
              ret |-> fr.records]
        ELSE [calls |-> c, resp |-> <<[kind |-> fr.kind]>>,
              stdout |-> <<<<"Error fetching records">>>>, ret |-> <<>>]

----------------------------------------------------------------------------
(* main(): the pure steps *)

\* Variant: the lower bound taken as exclusive.
InRangeExclusive(rec, mn, mx) == mn < Len(rec.seq) /\ Len(rec.seq) <= mx

\* The condition of the list comprehension: min_length <= len(rec.seq) <= max_length
InRange(rec, mn, mx) == mn <= Len(rec.seq) /\ Len(rec.seq) <= mx

\* Variant: out-of-range records removed from the list while a loop walks
\* it by position, so the record after a removed one is passed over.
RECURSIVE RemoveWhileIterating(_, _, _, _)
RemoveWhileIterating(list, i, mn, mx) ==
    IF i > Len(list) THEN list
    ELSE IF InRange(list[i], mn, mx)
    THEN RemoveWhileIterating(list, i + 1, mn, mx)
    ELSE RemoveWhileIterating(SubSeq(list, 1, i - 1) \o SubSeq(list, i + 1, Len(list)),
                              i + 1, mn, mx)

FilterRecordsInPlace(records, mn, mx) == RemoveWhileIterating(records, 1, mn, mx)

\* filtered_records = [rec for rec in sample_records if ...]
FilterRecords(records, mn, mx) ==
    SelectSeq(records, LAMBDA rec : InRange(rec, mn, mx))

\* The dict appended to csv_data for one record.
CsvRow(record) ==
    [Accession |-> record.id, Length |-> Len(record.seq),
     Description |-> record.description]

\* Variant: the rows collected in reverse order.
CsvDataReversed(records) ==
    [i \in 1..Len(records) |-> CsvRow(records[Len(records) + 1 - i])]

\* The loop that builds csv_data.
CsvData(records) == [i \in 1..Len(records) |-> CsvRow(records[i])]

\* Variant: the frame built with the three columns named explicitly.
DataFrameNamedColumns(data) ==
    [columns |-> <<"Accession", "Length", "Description">>, rows |-> data]

\* pd.DataFrame(list of dicts): the columns are the keys of the dicts, so a
\* frame built from the empty list has no columns at all.
DataFrame(data) ==
    [columns |-> IF Len(data) = 0 THEN <<>>
                 ELSE <<"Accession", "Length", "Description">>,
     rows |-> data]

HasColumn(frame, col) == \E j \in 1..Len(frame.columns) : frame.columns[j] = col

\* The cell of a row as text, as to_csv renders it.
CellText(row, col) ==
    IF col = "Length" THEN ToString(row.Length)
    ELSE IF col = "Accession" THEN row.Accession
    ELSE row.Description

\* df.to_csv(file, index=False): the header line and one line per row, the
\* cells in column order.
to_csv(frame) ==
    [header |-> frame.columns,
     rows |-> [i \in 1..Len(frame.rows) |->
                 [j \in 1..Len(frame.columns) |->
                     CellText(frame.rows[i], frame.columns[j])]]]

\* The row orders df.sort_values(by="Length", ascending=False) may produce:
\* every permutation of the rows with non-increasing Length (the default
\* sort is not stable, so rows of equal Length come in any order).
IndexPermutations(n) ==
    {f \in [1..n -> 1..n] : \A i, j \in 1..n : i /= j => f[i] /= f[j]}

\* Variant: ascending=False left out.
SortedOrdersAscending(frame) ==
    {f \in IndexPermutations(Len(frame.rows)) :
        \A i \in 1..(Len(frame.rows) - 1) :
            frame.rows[f[i]].Length <= frame.rows[f[i + 1]].Length}

SortedOrders(frame) ==
    {f \in IndexPermutations(Len(frame.rows)) :
        \A i \in 1..(Len(frame.rows) - 1) :
            frame.rows[f[i]].Length >= frame.rows[f[i + 1]].Length}

Reorder(frame, f) ==
    [columns |-> frame.columns,
     rows |-> [i \in 1..Len(frame.rows) |-> frame.rows[f[i]]]]

\* plt.plot(df_sorted["Accession"], df_sorted["Length"], marker='o') with its
\* labels and title: what savefig renders.
Chart(frame, id) ==
    [x |-> [i \in 1..Len(frame.rows) |-> frame.rows[i].Accession],
     y |-> [i \in 1..Len(frame.rows) |-> frame.rows[i].Length],
     marker |-> "o", xlabel |-> "Accession Number",
     ylabel |-> "Sequence Length",
     title |-> <<"Sequence Lengths for TaxID", id>>]

\* The file names main() builds from the taxid.
ArchiveName(id) == <<"taxid_", id, "_sample.gb">>
CsvName(id)     == <<"taxid_", id, "_report.csv">>
ChartName(id)   == <<"taxid_", id, "_lengths.png">>

\* A file as left by a write: complete, or cut short by an error.
Written(content) == [complete |-> TRUE, content |-> content]
Partial == [complete |-> FALSE, content |-> <<>>]

Exists(name) == name \in DOMAIN files

----------------------------------------------------------------------------
(* main(): one action per step *)

\* The object main() binds to its local `retriever`.
MainRetriever == "r1"

NoCall == [fn |-> "none", self |-> "none", args |-> <<>>, ret |-> <<>>,
           issued |-> <<>>, answers |-> <<>>, printed |-> <<>>]

Init ==
    /\ Entrez = [email |-> None, api_key |-> None, tool |-> "biopython"]
    /\ retr = [r \in Retrievers |-> NoObject]
    /\ calls = <<>>
    /\ resp = <<>>
    /\ stdout = <<>>
    /\ pc = "input"
    /\ exc = "none"
    /\ taxid = None
    /\ min_length = None
    /\ max_length = None
    /\ count = None
    /\ sample_records = None
    /\ filtered_records = None
    /\ df = None
    /\ df_sorted = None
    /\ files = <<>>
    /\ last = NoCall
    /\ session = [r \in Retrievers |-> None]

\* main() ends by an uncaught exception.
Raise(e) == pc' = "done" /\ exc' = e

\* Lines 82-89: the inputs, the retriever, and the two int() conversions.
MainInput ==
    /\ pc = "input"
    /\ \E cred \in MainCredentials, id \in TaxIds,
          mn \in InputTexts, mx \in InputTexts :
        LET new == NCBIRetriever_init(cred[1], cred[2])
        IN  /\ retr' = [retr EXCEPT ![MainRetriever] = new.self]
            /\ Entrez' = new.Entrez
            /\ taxid' = Some(id)
            /\ IF ~IsSet(int(mn))
               THEN Raise("ValueError") /\ UNCHANGED <<min_length, max_length>>
               ELSE IF ~IsSet(int(mx))
               THEN /\ Raise("ValueError")
                    /\ min_length' = int(mn)
                    /\ UNCHANGED max_length
               ELSE /\ min_length' = int(mn)
                    /\ max_length' = int(mx)
                    /\ pc' = "search"
                    /\ UNCHANGED exc
    /\ UNCHANGED <<calls, resp, stdout, count, sample_records,
                   filtered_records, df, df_sorted, files, last, session>>

\* Variant: `count == 0` in place of `not count`.
FalsyZeroOnly(v) == IsSet(v) /\ Val(v) = 0

\* The tokens handed out by a search that returned a count; those of the
\* search before it otherwise.
SessionAfter(old, ret, sr) ==
    IF IsSet(ret)
    THEN Some([webenv |-> Val(sr.WebEnv), query_key |-> Val(sr.QueryKey)])
    ELSE old

\* `not count`: true of None and of 0.
Falsy(v) == ~IsSet(v) \/ Val(v) = 0

\* Variant: the early return left out.
AfterSearchNoReturn(cnt) == "fetch"

\* Lines 92-94: if not count: print(...); return
AfterSearch(cnt) == IF Falsy(cnt) THEN "done" ELSE "fetch"

\* Lines 91-94: count = retriever.search_taxid(taxid); if not count: return
MainSearch ==
    /\ pc = "search"
    /\ \E tr \in TaxonomyResponses, sr \in SearchResponses :
        LET r == search_taxid(retr[MainRetriever], Val(taxid), tr, sr)
            next == AfterSearch(r.ret)
        IN  /\ retr' = [retr EXCEPT ![MainRetriever] = r.self]
            /\ calls' = calls \o r.calls
            /\ resp' = resp \o r.resp
            /\ count' = r.ret
            /\ session' = [session EXCEPT ![MainRetriever] =
                               SessionAfter(@, r.ret, sr)]
            /\ stdout' = stdout \o r.stdout \o
                   (IF next = "done" THEN <<<<"No records found. Exiting.">>>>
                    ELSE <<>>)
            /\ pc' = next
    /\ UNCHANGED <<Entrez, exc, taxid, min_length, max_length, sample_records,
                   filtered_records, df, df_sorted, files, last>>

\* What the service may answer to the fetch of main().
MainFetchResponses ==
    FetchResponses(SeqRecords, min(SampleSize, MaxBatch), MaxFetched)

\* Lines 96-97: sample_records = retriever.fetch_records(start=0, max_records=20)
MainFetch ==
    /\ pc = "fetch"
    /\ \E fr \in MainFetchResponses :
        LET r == fetch_records(retr[MainRetriever], 0, SampleSize, fr)
        IN  /\ sample_records' = Some(r.ret)
            /\ resp' = resp \o r.resp
            /\ calls' = calls \o r.calls
            /\ stdout' = stdout \o <<<<"Fetching sample records...">>>> \o r.stdout
    /\ pc' = "filter"
    /\ UNCHANGED <<Entrez, retr, exc, taxid, min_length, max_length, count,
                   filtered_records, df, df_sorted, files, last, session>>

\* Lines 99-104: the length filter.
MainFilter ==
    /\ pc = "filter"
    /\ LET kept == FilterRecords(Val(sample_records), Val(min_length), Val(max_length))
       IN  /\ filtered_records' = Some(kept)
           /\ stdout' = stdout \o <<<<"Filtered to", ToString(Len(kept)), "records">>>>
    /\ pc' = "archive"
    /\ UNCHANGED <<Entrez, retr, calls, resp, exc, taxid, min_length, max_length,
                   count, sample_records, df, df_sorted, files, last, session>>

\* Variant: an I/O error caught and the run carried on.
WriteFileSwallowed(name, content, io, next, line) ==
    /\ files' = IF io = "open_error" THEN files
                ELSE IF io = "write_error" THEN (name :> Partial) @@ files
                ELSE (name :> Written(content)) @@ files
    /\ pc' = next
    /\ stdout' = IF io = "ok" THEN stdout \o <<line>> ELSE stdout
    /\ UNCHANGED exc

\* One file written under name: complete, or open() raises and nothing is
\* created, or the write raises and leaves the file cut short.
WriteFile(name, content, io, next, line) ==
    /\ files' = IF io = "open_error" THEN files
                ELSE IF io = "write_error" THEN (name :> Partial) @@ files
                ELSE (name :> Written(content)) @@ files
    /\ IF io = "ok"
       THEN /\ pc' = next
            /\ stdout' = stdout \o <<line>>
            /\ UNCHANGED exc
       ELSE /\ Raise("OSError")
            /\ UNCHANGED stdout

\* Variant: the archive step passed over without writing the file.
MainWriteArchiveSkipped ==
    /\ pc = "archive"
    /\ pc' = "csv"
    /\ UNCHANGED <<Entrez, retr, calls, resp, stdout, exc, files, last, session>>
    /\ UNCHANGED mainLocals

\* Lines 106-110: with open(output_file, "w") as f: SeqIO.write(...)
MainWriteArchive ==
    /\ pc = "archive"
    /\ \E io \in IOOutcomes :
        WriteFile(ArchiveName(Val(taxid)), Val(filtered_records), io, "csv",
                  <<"Saved filtered sample records to">> \o ArchiveName(Val(taxid)))
    /\ UNCHANGED <<Entrez, retr, calls, resp, taxid, min_length, max_length,
                   count, sample_records, filtered_records, df, df_sorted, last, session>>

\* Lines 112-123: csv_data, df = pd.DataFrame(csv_data), df.to_csv(...)
MainWriteCsv ==
    /\ pc = "csv"
    /\ LET frame == DataFrame(CsvData(Val(filtered_records)))
       IN  /\ df' = Some(frame)
           /\ \E io \in IOOutcomes :
                WriteFile(CsvName(Val(taxid)), to_csv(frame), io, "sort",
                          <<"Saved CSV report to">> \o CsvName(Val(taxid)))
    /\ UNCHANGED <<Entrez, retr, calls, resp, taxid, min_length, max_length,
                   count, sample_records, filtered_records, df_sorted, last, session>>

\* Line 126: df_sorted = df.sort_values(by="Length", ascending=False); a
\* frame without a Length column raises KeyError.
MainSort ==
    /\ pc = "sort"
    /\ IF ~HasColumn(Val(df), "Length")
       THEN Raise("KeyError") /\ UNCHANGED df_sorted
       ELSE /\ \E f \in SortedOrders(Val(df)) : df_sorted' = Some(Reorder(Val(df), f))
            /\ pc' = "chart"
            /\ UNCHANGED exc
    /\ UNCHANGED <<Entrez, retr, calls, resp, stdout, taxid, min_length,
                   max_length, count, sample_records, filtered_records, df,
                   files, last, session>>

\* Lines 128-140: the plot and plt.savefig(chart_file)
MainChart ==
    /\ pc = "chart"
    /\ \E io \in IOOutcomes :
        WriteFile(ChartName(Val(taxid)), Chart(Val(df_sorted), Val(taxid)), io,
                  "done", <<"Saved chart to">> \o ChartName(Val(taxid)))
    /\ UNCHANGED <<Entrez, retr, calls, resp, taxid, min_length, max_length,
                   count, sample_records, filtered_records, df, df_sorted, last, session>>

Next ==
    \/ MainInput
    \/ MainSearch
    \/ MainFetch
    \/ MainFilter
    \/ MainWriteArchive
    \/ MainWriteCsv
    \/ MainSort
    \/ MainChart

Spec == Init /\ [][Next]_vars

\* main() is straight-line code run by one thread: a statement that can run
\* does run.
SpecFair == Spec /\ WF_vars(Next)

----------------------------------------------------------------------------
(* The class used directly: retrievers constructed and called in any order *)

\* Arguments tried for fetch_records(start, max_records): a count below the
\* service's batch limit and one above it.
FetchArgs == {<<0, 1>>, <<1, MaxBatch + 1>>}

\* The records the service returns in SpecAPI
APIRecords == {rec \in SeqRecords : rec.id = "AB1" /\ Len(rec.seq) = 1}

\* The search response is read only if the taxonomy lookup succeeded.
SearchResponsesAfter(tr) ==
    IF TaxonomyAnswer(tr) = "ok" THEN SearchResponses
    ELSE {[kind |-> "error", Count |-> "0", WebEnv |-> None, QueryKey |-> None]}

\* retriever = NCBIRetriever(email, api_key)
Construct(r) ==
    /\ ~retr[r].made
    /\ \E cred \in Credentials :
        LET new == NCBIRetriever_init(cred[1], cred[2])
        IN  /\ retr' = [retr EXCEPT ![r] = new.self]
            /\ Entrez' = new.Entrez
            /\ last' = [fn |-> "__init__", self |-> r, args |-> cred,
                        ret |-> <<>>,
                        issued |-> <<>>, answers |-> <<>>, printed |-> <<>>]
    /\ UNCHANGED <<calls, resp, stdout, pc, exc, files, session>>
    /\ UNCHANGED mainLocals

\* retriever.search_taxid(taxid)
CallSearch(r) ==
    /\ retr[r].made
    /\ \E id \in TaxIds, tr \in TaxonomyResponses :
       \E sr \in SearchResponsesAfter(tr) :
        LET res == search_taxid(retr[r], id, tr, sr)
        IN  /\ retr' = [retr EXCEPT ![r] = res.self]
            /\ last' = [fn |-> "search_taxid", self |-> r, args |-> <<id>>,
                        ret |-> res.ret,
                        issued |-> res.calls, answers |-> res.resp,
                        printed |-> res.stdout]
            /\ session' = [session EXCEPT ![r] = SessionAfter(@, res.ret, sr)]
    /\ UNCHANGED <<Entrez, calls, resp, stdout, pc, exc, files>>
    /\ UNCHANGED mainLocals

\* retriever.fetch_records(start, max_records)
CallFetch(r) ==
    /\ retr[r].made
    /\ \E args \in FetchArgs :
       \E fr \in FetchResponses(APIRecords, min(args[2], MaxBatch),
                                 MaxFetchedAPI) :
        LET res == fetch_records(retr[r], args[1], args[2], fr)
        IN  last' = [fn |-> "fetch_records", self |-> r,
                     args |-> args, ret |-> res.ret,
                     issued |-> res.calls, answers |-> res.resp,
                     printed |-> res.stdout]
    /\ UNCHANGED <<Entrez, retr, calls, resp, stdout, pc, exc, files, session>>
    /\ UNCHANGED mainLocals

NextAPI ==
    \/ \E r \in Retrievers : Construct(r)
    \/ \E r \in Retrievers : CallSearch(r)
    \/ \E r \in Retrievers : CallFetch(r)

SpecAPI == Init /\ [][NextAPI]_vars

----------------------------------------------------------------------------
(* Observations of a run of main() *)

\* The remote calls of the run, by kind.
IsTaxonomyCall(c) == c.fn = "efetch" /\ c.db = "taxonomy"
IsSearchCall(c) == c.fn = "esearch"
IsFetchCall(c) == c.fn = "efetch" /\ c.db = "nucleotide"
FetchIssued == \E i \in 1..Len(calls) : IsFetchCall(calls[i])

\* The answer the service gave to the run's call of a kind, if it made one.
Answered(i) == i <= Len(resp)
SearchReportedZero ==
    Answered(2) /\ resp[2].kind = "ok" /\ int(resp[2].Count) = Some(0)
ResolutionFailed ==
    \/ Answered(1) /\ resp[1].kind \in {"error", "no_entry"}
    \/ Answered(2) /\ resp[2].kind = "error"
FetchFailed == Answered(3) /\ resp[3].kind \in {"error", "parse_error"}

NoArtifacts == DOMAIN files = {}

RunEnded == pc = "done"
EndedNormally == pc = "done" /\ exc = "none"

----------------------------------------------------------------------------
(* C1 *)

\* The positions of the fetched records whose length is in the range.
Qualifying(records, mn, mx) ==
    {i \in 1..Len(records) :
        Len(records[i].seq) >= mn /\ Len(records[i].seq) <= mx}

\* C1: once the filter step has run, filtered_records holds exactly the
\* fetched records whose sequence length L has min_length <= L <= max_length:
\* as many as there are qualifying positions, the k-th of them being the
\* record at the k-th qualifying position (nothing else, nothing dropped,
\* input order kept); an empty input gives an empty output.
C1_FilterExact ==
    IsSet(filtered_records) =>
        LET S == Val(sample_records)
            F == Val(filtered_records)
            Q == Qualifying(S, Val(min_length), Val(max_length))
        IN  /\ Len(F) = Cardinality(Q)
            /\ \A k \in 1..Len(F) :
                 \E i \in Q : /\ Cardinality({j \in Q : j <= i}) = k
                              /\ F[k] = S[i]
            /\ (Len(S) = 0 => Len(F) = 0)

\* A run with 0 < min_length < max_length that dropped the first fetched
\* record, shorter than min_length, and kept the second, of length exactly
\* max_length.
C1_Witness ==
    /\ IsSet(filtered_records)
    /\ 0 < Val(min_length) /\ Val(min_length) < Val(max_length)
    /\ Len(Val(sample_records)) = 2
    /\ Len(Val(sample_records)[1].seq) < Val(min_length)
    /\ Len(Val(filtered_records)) = 1
    /\ Val(filtered_records)[1] = Val(sample_records)[2]
    /\ Len(Val(filtered_records)[1].seq) = Val(max_length)

----------------------------------------------------------------------------
(* C2 *)

\* C2: in a run whose search reported Count 0, no sequence fetch is issued,
\* no file is created, and the run has ended (by return) after the search.
C2_ZeroCountHalts ==
    SearchReportedZero =>
        /\ ~FetchIssued
        /\ Len(calls) = 2
        /\ NoArtifacts
        /\ EndedNormally
        /\ ~IsSet(sample_records)

\* A run ended after a search that reported Count 0.
C2_Witness ==
    /\ SearchReportedZero
    /\ RunEnded
    /\ stdout[Len(stdout)] = <<"No records found. Exiting.">>

----------------------------------------------------------------------------
(* C3 *)

SessionTokensStored(r) == IsSet(retr[r].webenv) \/ IsSet(retr[r].query_key)

\* C3: if the taxonomy lookup raised or held no entry, or the search call
\* raised, search_taxid raised nothing and returned None, stored no session
\* token, and the run ended without a fetch and without creating a file.
C3_ResolutionFailureHalts ==
    ResolutionFailed =>
        /\ count = None
        /\ ~SessionTokensStored(MainRetriever)
        /\ EndedNormally
        /\ ~FetchIssued
        /\ NoArtifacts
        /\ stdout[Len(stdout)] = <<"No records found. Exiting.">>

\* A run whose taxonomy lookup succeeded and whose search call raised.
C3_Witness ==
    /\ Answered(2) /\ resp[2].kind = "error"
    /\ RunEnded

----------------------------------------------------------------------------
(* C4 - C6 *)

TheArchive == ArchiveName(Val(taxid))
TheCsv     == CsvName(Val(taxid))
TheChart   == ChartName(Val(taxid))

Complete(name) == Exists(name) /\ files[name].complete
FilteredEmpty == IsSet(filtered_records) /\ Len(Val(filtered_records)) = 0
FilteredNonEmpty == IsSet(filtered_records) /\ Len(Val(filtered_records)) > 0

\* C4: after a failed fetch (the call or the parse raised) fetch_records
\* has returned [] without raising, the filter runs on zero records, and,
\* unless a file could not be written, the run writes an empty archive and
\* an empty CSV, makes no chart and ends normally.
C4_FetchFailureContinues ==
    FetchFailed =>
        /\ IsSet(sample_records) /\ Len(Val(sample_records)) = 0
        /\ (IsSet(filtered_records) => Len(Val(filtered_records)) = 0)
        /\ ~Exists(TheChart)
        /\ (RunEnded /\ exc /= "OSError" =>
                /\ EndedNormally
                /\ Complete(TheArchive) /\ Len(files[TheArchive].content) = 0
                /\ Complete(TheCsv) /\ Len(files[TheCsv].content.rows) = 0)

\* C5: the chart is being made, or has been made, only in a run whose
\* filtered record set is non-empty.
C5_ChartOnlyIfNonEmpty ==
    IsSet(taxid) => ((pc = "chart" \/ Exists(TheChart)) => FilteredNonEmpty)

\* A run that ended normally with a chart of at least one point.
C5_Witness ==
    /\ IsSet(taxid)
    /\ Complete(TheChart)
    /\ Len(files[TheChart].content.x) > 0
    /\ EndedNormally

\* C6: a run whose filtered set is empty, and whose files could all be
\* written, has a complete CSV without data rows, makes no chart and ends
\* normally.
C6_EmptySetCompletes ==
    (FilteredEmpty /\ RunEnded /\ exc /= "OSError") =>
        /\ exc /= "KeyError"
        /\ Complete(TheCsv) /\ Len(files[TheCsv].content.rows) = 0
        /\ ~Exists(TheChart)
        /\ EndedNormally

----------------------------------------------------------------------------
(* C7 *)

HasSession(r) == IsSet(retr[r].webenv) /\ IsSet(retr[r].query_key)

\* C7: a fetch_records call on a retriever that does not hold both session
\* tokens issues no remote call, prints the no-search-results line and
\* nothing else, and returns the empty list.
C7_NoSessionFailsFast ==
    (last.fn = "fetch_records" /\ ~HasSession(last.self)) =>
        /\ Len(last.issued) = 0
        /\ last.printed = <<<<"No search results to fetch. Run search_taxid() first.">>>>
        /\ Len(last.ret) = 0

\* fetch_records called on a retriever whose only search so far failed,
\* while the other retriever holds a session.
C7_Witness ==
    /\ last.fn = "fetch_records"
    /\ ~HasSession(last.self)
    /\ \E r \in Retrievers : r /= last.self /\ HasSession(r)
    /\ Len(last.issued) = 0

----------------------------------------------------------------------------
(* C8 *)

\* C8: with min_length > max_length the filter step does not run.
C8_InvertedRangeRejected ==
    (IsSet(min_length) /\ IsSet(max_length) /\ Val(min_length) > Val(max_length))
        => ~IsSet(filtered_records)

----------------------------------------------------------------------------
(* C9 *)

\* C9: a CSV report written in full has one data row per filtered record,
\* in the order of the filtered records, the i-th row holding the i-th
\* record's accession, length and description.
C9_CsvRowsMatch ==
    (IsSet(taxid) /\ Complete(TheCsv)) =>
        LET rows == files[TheCsv].content.rows
            F == Val(filtered_records)
        IN  /\ Len(rows) = Len(F)
            /\ \A i \in 1..Len(F) :
                 rows[i] = <<F[i].id, ToString(Len(F[i].seq)), F[i].description>>

\* A report of two rows for two records of different accession and length.
C9_Witness ==
    /\ IsSet(taxid)
    /\ Complete(TheCsv)
    /\ Len(files[TheCsv].content.rows) = 2
    /\ Val(filtered_records)[1].id /= Val(filtered_records)[2].id
    /\ Len(Val(filtered_records)[1].seq) < Len(Val(filtered_records)[2].seq)

----------------------------------------------------------------------------
(* C10 *)

\* C10: the files are written in the order archive, CSV, chart, and an I/O
\* error ends the run at once: a chart exists only if the CSV was written
\* in full, a CSV only if the archive was written in full, and a file cut
\* short or an OSError means the run has ended.
C10_OutputOrderAndAbort ==
    IsSet(taxid) =>
        /\ (Exists(TheChart) => Complete(TheCsv))
        /\ (Exists(TheCsv) => Complete(TheArchive))
        /\ \A n \in DOMAIN files : ~files[n].complete => exc = "OSError"
        /\ (exc = "OSError" => RunEnded)

\* The CSV write failed after the archive was written: the run has ended
\* without a chart.
C10_Witness ==
    /\ IsSet(taxid)
    /\ Complete(TheArchive)
    /\ Exists(TheCsv) /\ ~files[TheCsv].complete
    /\ ~Exists(TheChart)
    /\ exc = "OSError"
    /\ FilteredNonEmpty

----------------------------------------------------------------------------
(* C11 *)

\* The positions of main() in program order.
PcRank(p) ==
    CASE p = "input" -> 0 [] p = "search" -> 1 [] p = "fetch" -> 2
      [] p = "filter" -> 3 [] p = "archive" -> 4 [] p = "csv" -> 5
      [] p = "sort" -> 6 [] p = "chart" -> 7 [] p = "done" -> 8

\* main() ran to its last statement (line 140).
Completed ==
    /\ EndedNormally
    /\ Len(stdout) > 0
    /\ stdout[Len(stdout)][1] = "Saved chart to"

\* The remote calls of the run are a taxonomy lookup, then a search made
\* only after the lookup gave an entry, then a fetch made only after the
\* search reported a positive Count; later stages have their predecessors.
StageOrder ==
    /\ Len(calls) <= 3
    /\ \A i \in 1..Len(calls) :
        /\ IsTaxonomyCall(calls[i]) <=> i = 1
        /\ IsSearchCall(calls[i]) <=> i = 2
        /\ IsFetchCall(calls[i]) <=> i = 3
    /\ (Len(calls) >= 2 => resp[1].kind = "ok")
    /\ (Len(calls) >= 3 =>
            /\ resp[2].kind = "ok"
            /\ IsSet(int(resp[2].Count)) /\ Val(int(resp[2].Count)) > 0)
    /\ (IsSet(sample_records) => Len(calls) = 3)
    /\ (IsSet(filtered_records) => IsSet(sample_records))
    /\ (~NoArtifacts => IsSet(filtered_records))
    /\ (Completed =>
            Complete(TheArchive) /\ Complete(TheCsv) /\ Complete(TheChart))

\* C11: every run of main() ends; its remote calls are at most one taxonomy
\* lookup, one search and one fetch, in that order and each only after the
\* one before succeeded; main() never goes back to an earlier position; and
\* a run that reached its last statement has written the archive, the
\* report and the chart in full.
C11_TerminatesInStageOrder ==
    /\ <>RunEnded
    /\ []StageOrder
    /\ [][PcRank(pc') > PcRank(pc)]_pc

\* A run that reached the last statement after all three calls.
C11_Witness ==
    /\ Completed
    /\ Len(calls) = 3
    /\ Complete(TheChart)

----------------------------------------------------------------------------
(* C12 *)

\* C12: the length filter applied again, with the same min_length and
\* max_length, to the filtered records of a run returns them unchanged.
C12_FilterIdempotent ==
    IsSet(filtered_records) =>
        FilterRecords(Val(filtered_records), Val(min_length), Val(max_length))
            = Val(filtered_records)

\* A run whose filter dropped the first of two fetched records and kept
\* the other.
C12_Witness ==
    /\ IsSet(filtered_records)
    /\ Len(Val(sample_records)) = 2
    /\ Val(filtered_records) = <<Val(sample_records)[2]>>
    /\ Val(min_length) <= Val(max_length)

----------------------------------------------------------------------------
(* C13 *)

\* C13: a fetch_records call that comes right after a search_taxid call on
\* the same retriever which returned None (zero records, or a failure)
\* issues no remote fetch.
C13_NoFetchAfterEmptySearch ==
    [][(/\ last.fn = "search_taxid"
        /\ ~IsSet(last.ret)
        /\ last'.fn = "fetch_records"
        /\ last'.self = last.self)
       => Len(last'.issued) = 0]_vars

----------------------------------------------------------------------------
(* C14 *)

\* C14: a fetch_records(start, max_records) call on a retriever holding a
\* session issues exactly one remote call, a nucleotide fetch and no search,
\* with retstart = start, retmax = the smaller of max_records and 500, and
\* the WebEnv and QueryKey the service handed out in that retriever's last
\* successful search.
C14_FetchRequest ==
    (last.fn = "fetch_records" /\ HasSession(last.self)) =>
        /\ Len(last.issued) = 1
        /\ IsFetchCall(last.issued[1])
        /\ ~IsSearchCall(last.issued[1])
        /\ last.issued[1].retstart = last.args[1]
        /\ last.issued[1].retmax =
               (IF last.args[2] > 500 THEN 500 ELSE last.args[2])
        /\ IsSet(session[last.self])
        /\ last.issued[1].webenv = Val(session[last.self]).webenv
        /\ last.issued[1].query_key = Val(session[last.self]).query_key

----------------------------------------------------------------------------
(* C15 *)

\* C15: every remote call made through a retriever carries the email and
\* the API key that retriever was constructed with.
C15_OwnCredentials ==
    last.fn \in {"search_taxid", "fetch_records"} =>
        \A i \in 1..Len(last.issued) :
            /\ last.issued[i].email = retr[last.self].email
            /\ last.issued[i].api_key = retr[last.self].api_key

----------------------------------------------------------------------------
(* C16 *)

\* C16: a chart written in full plots one point per filtered record: some
\* one-to-one matching of points to filtered records gives every point the
\* accession and the length of its record, and the lengths do not increase
\* along the series.
C16_ChartSeries ==
    (IsSet(taxid) /\ Complete(TheChart)) =>
        LET x == files[TheChart].content.x
            y == files[TheChart].content.y
            F == Val(filtered_records)
            n == Len(F)
        IN  /\ Len(x) = n /\ Len(y) = n
            /\ \E f \in [1..n -> 1..n] :
                 /\ \A i, j \in 1..n : i /= j => f[i] /= f[j]
                 /\ \A i \in 1..n :
                      x[i] = F[f[i]].id /\ y[i] = Len(F[f[i]].seq)
            /\ \A i \in 1..(n - 1) : y[i] >= y[i + 1]

\* A chart of two points whose order is the reverse of the filtered records.
C16_Witness ==
    /\ IsSet(taxid)
    /\ Complete(TheChart)
    /\ Len(Val(filtered_records)) = 2
    /\ Len(Val(filtered_records)[1].seq) < Len(Val(filtered_records)[2].seq)
    /\ Val(filtered_records)[1].id /= Val(filtered_records)[2].id
    /\ files[TheChart].content.x[1] = Val(filtered_records)[2].id

====
